---- MODULE Spec2Model ----
(***************************************************************************)
(* A model of bamboohr.py, the BambooHR API client.                        *)
(*                                                                         *)
(* Python values are modelled as follows.                                  *)
(*   str            a TLA+ string                                          *)
(*   bytes          a sequence of one-character strings                    *)
(*   list           a sequence                                             *)
(*   dict           a record; {} is the function with the empty domain     *)
(*   None / a value <<>> / <<v>>   (an argument that may be None)          *)
(*   an omitted argument with a default   <<>>, a supplied one <<v>>       *)
(* A method is an operator of self, its arguments and the answer `tr` of   *)
(* the network to the one requests.get/requests.post it performs.  It      *)
(* yields the requests it handed to the requests library (sent), how the   *)
(* call ended (result) and the object after the call (self).               *)
(***************************************************************************)
EXTENDS Integers, Sequences, FiniteSets, TLC

VARIABLES objects, ctor, last, nCalls, nRequests

vars == <<objects, ctor, last, nCalls, nRequests>>

-----------------------------------------------------------------------------
(* Bounds and the inputs the calls are drawn from *)

MaxCalls == 2

Clients == {"c1", "c2"}

Subdomains == {"acme", "corp"}

Tokens == {"tokA", "tokB"}

EmployeeIds == {-7, 0, 42}

Titles == {"custom"}

\* the lists of field names a caller passes
FieldLists == {<<>>, <<"id">>, <<"lastName", "id">>}

ReportFormats == {"csv"}

\* status line of a response: code and reason phrase
StatusLines == {<<200, "OK">>, <<201, "Created">>, <<204, "No Content">>,
                <<404, "Not Found">>, <<500, "Internal Server Error">>}

\* response bodies, as bytes; the JSON texts among them are arrays
Bodies == {<<>>, <<"[", "]">>, <<"[", "[", "]", "]">>,
           <<"[", "[", "]", ",", "[", "]", "]">>, <<"[", "[", "]">>, <<"<">>}

\* where a redirected request ends
RedirectURL == "https://acme.bamboohr.com/login.php"

-----------------------------------------------------------------------------
(* Module constants *)

DEFAULT_HEADERS == [Accept |-> "application/json"]

PHOTO_ORIGINAL == "original"

PHOTO_LARGE == "large"

PHOTO_MEDIUM == "medium"

PHOTO_SMALL == "small"

PHOTO_XS == "xs"

PHOTO_TINY == "tiny"

PhotoSizes == {PHOTO_ORIGINAL, PHOTO_LARGE, PHOTO_MEDIUM, PHOTO_SMALL,
               PHOTO_XS, PHOTO_TINY}

BAMBOOHR_API_URL == "https://api.bamboohr.com/api/gateway.php"

-----------------------------------------------------------------------------
(* Python built-ins the client uses *)

None == <<>>

EmptyDict == [k \in {} |-> ""]

Digit(d) ==
    CASE d = 0 -> "0" [] d = 1 -> "1" [] d = 2 -> "2" [] d = 3 -> "3"
      [] d = 4 -> "4" [] d = 5 -> "5" [] d = 6 -> "6" [] d = 7 -> "7"
      [] d = 8 -> "8" [] d = 9 -> "9"

RECURSIVE str(_)
\* str(int): the decimal numeral
str(n) ==
    IF n < 0 THEN "-" \o str(-n)
    ELSE IF n < 10 THEN Digit(n)
    ELSE str(n \div 10) \o Digit(n % 10)

RECURSIVE join(_, _)
\* sep.join(seq)
join(sep, seq) ==
    IF Len(seq) = 0 THEN ""
    ELSE IF Len(seq) = 1 THEN seq[1]
    ELSE seq[1] \o sep \o join(sep, Tail(seq))

RECURSIVE decode(_)
\* bytes -> text
decode(content) ==
    IF Len(content) = 0 THEN "" ELSE content[1] \o decode(Tail(content))

\* how a call ends
Return(v) == [kind |-> "return", value |-> v, exc |-> [type |-> "none"]]

Raise(e) == [kind |-> "raise", value |-> [type |-> "none"], exc |-> e]

-----------------------------------------------------------------------------
(* The requests library, as far as the client uses it *)

HTTPBasicAuth(username, password) ==
    [username |-> username, password |-> password]

\* the request requests.get / requests.post puts on the wire
Request(method, url, json, params, headers, auth) ==
    [method |-> method, url |-> url, json |-> json, params |-> params,
     headers |-> headers, auth |-> auth]

\* what the network answers: a fault, or a response
TransportResults ==
    {[fault |-> TRUE, status_code |-> 0, reason |-> "", content |-> <<>>,
      redirected |-> FALSE]}
    \cup {[fault |-> FALSE, status_code |-> sl[1], reason |-> sl[2],
           content |-> b, redirected |-> r] :
              sl \in StatusLines, b \in Bodies, r \in BOOLEAN}

\* the requests.Response of a request the network answered with tr
Response(request, tr) ==
    [status_code |-> tr.status_code, reason |-> tr.reason,
     content |-> tr.content, text |-> decode(tr.content),
     url |-> IF tr.redirected THEN RedirectURL ELSE request.url,
     request |-> request]

ParseFail == [ok |-> FALSE, v |-> <<>>, next |-> 0]

RECURSIVE ParseValue(_, _), ParseItems(_, _, _)
\* a JSON value of s starting at i (arrays: the alphabet of Bodies has no other)
ParseValue(s, i) ==
    IF i > Len(s) \/ s[i] /= "[" THEN ParseFail
    ELSE IF i + 1 <= Len(s) /\ s[i + 1] = "]"
         THEN [ok |-> TRUE, v |-> <<>>, next |-> i + 2]
    ELSE ParseItems(s, i + 1, <<>>)

ParseItems(s, i, acc) ==
    LET e == ParseValue(s, i) IN
    IF ~e.ok THEN ParseFail
    ELSE IF e.next <= Len(s) /\ s[e.next] = ","
         THEN ParseItems(s, e.next + 1, Append(acc, e.v))
    ELSE IF e.next <= Len(s) /\ s[e.next] = "]"
         THEN [ok |-> TRUE, v |-> Append(acc, e.v), next |-> e.next + 1]
    ELSE ParseFail

\* Response.json(): the parsed body, or the decoding fault of the library
json(response) ==
    LET r == ParseValue(response.content, 1) IN
    IF r.ok /\ r.next = Len(response.content) + 1
    THEN Return([type |-> "json", v |-> r.v])
    ELSE Raise([type |-> "JSONDecodeError"])

\* Response.content
content(response) == Return([type |-> "bytes", v |-> response.content])

-----------------------------------------------------------------------------
(* class BambooHR *)

\* a slip: the token given as the password
__init___swapped(subdomain, token) ==
    [subdomain |-> subdomain, auth |-> HTTPBasicAuth("x", token)]

__init__(subdomain, token) ==
    [subdomain |-> subdomain, auth |-> HTTPBasicAuth(token, "x")]

employees_url(self) ==
    BAMBOOHR_API_URL \o "/" \o self.subdomain \o "/v1/employees/directory"

\* a slip: the directory path copied
custom_report_url_copied(self) ==
    BAMBOOHR_API_URL \o "/" \o self.subdomain \o "/v1/employees/directory"

custom_report_url(self) ==
    BAMBOOHR_API_URL \o "/" \o self.subdomain \o "/v1/reports/custom"

_get_employee_url(self, employee_id) ==
    BAMBOOHR_API_URL \o "/" \o self.subdomain \o "/v1/employees/"
        \o str(employee_id)

_get_photo_url(self, employee_id, size) ==
    BAMBOOHR_API_URL \o "/" \o self.subdomain \o "/v1/employees/"
        \o str(employee_id) \o "/photo/" \o size

HTTPError(response) ==
    [type |-> "HTTPError",
     message |-> "HTTP[" \o str(response.status_code) \o "]: "
                 \o response.reason \o " " \o response.text
                 \o " for " \o response.url,
     request |-> response.request,
     response |-> response]

\* a slip: every 2xx status taken for success
_raise_for_error_2xx(response) ==
    IF response.status_code < 200 \/ response.status_code >= 300
    THEN Raise(HTTPError(response))
    ELSE Return(response)

_raise_for_error(response) ==
    IF response.status_code /= 200
    THEN Raise(HTTPError(response))
    ELSE Return(response)

\* one requests.get / requests.post: a fault of the network propagates
Perform(self, request, tr) ==
    [sent |-> <<request>>,
     result |-> IF tr.fault THEN Raise([type |-> "ConnectionError"])
                ELSE _raise_for_error(Response(request, tr)),
     self |-> self]

\* a slip: the request is sent again after a status that is not 200
_get_retry(self, url, params, tr) ==
    LET p == IF params /= None /\ DOMAIN params[1] /= {}
             THEN params[1] ELSE EmptyDict
        r == Perform(self,
                     Request("GET", url, None, p, DEFAULT_HEADERS, self.auth),
                     tr)
    IN IF ~tr.fault /\ tr.status_code /= 200
       THEN [sent |-> r.sent \o r.sent, result |-> r.result, self |-> r.self]
       ELSE r

\* params is None or <<dict>>
_get(self, url, params, tr) ==
    LET p == IF params /= None /\ DOMAIN params[1] /= {}
             THEN params[1] ELSE EmptyDict
    IN Perform(self, Request("GET", url, None, p, DEFAULT_HEADERS, self.auth),
               tr)

\* a slip: the helper keeps the parameters of the call on the client
_post_keeps_params(self, url, data, params, tr) ==
    LET r == Perform(self,
                     Request("POST", url, <<data>>, params, DEFAULT_HEADERS,
                             self.auth),
                     tr)
    IN [sent |-> r.sent, result |-> r.result,
        self |-> [subdomain |-> self.subdomain, auth |-> self.auth,
                  params |-> params]]

_post(self, url, data, params, tr) ==
    Perform(self,
            Request("POST", url, <<data>>, params, DEFAULT_HEADERS, self.auth),
            tr)

\* helper(...).json(): reached only when the helper returned its response
ThenJson(r) ==
    [sent |-> r.sent,
     result |-> IF r.result.kind = "raise" THEN r.result
                ELSE json(r.result.value),
     self |-> r.self]

\* helper(...).content
ThenContent(r) ==
    [sent |-> r.sent,
     result |-> IF r.result.kind = "raise" THEN r.result
                ELSE content(r.result.value),
     self |-> r.self]

get_employees(self, tr) ==
    LET url == employees_url(self)
    IN ThenJson(_get(self, url, None, tr))

\* a slip: the default names are added to the caller's
get_employee_adds_defaults(self, employee_id, fields, tr) ==
    LET url == _get_employee_url(self, employee_id)
        fs == (IF fields /= None THEN fields[1] ELSE <<>>)
                  \o <<"firstName", "lastName">>
        params == [fields |-> join(",", fs)]
    IN ThenJson(_get(self, url, <<params>>, tr))

\* a slip: only None, not the empty list, takes the default
get_employee_is_none(self, employee_id, fields, tr) ==
    LET url == _get_employee_url(self, employee_id)
        fs == IF fields /= None THEN fields[1] ELSE <<"firstName", "lastName">>
        params == [fields |-> join(",", fs)]
    IN ThenJson(_get(self, url, <<params>>, tr))

\* fields is None (also when omitted) or <<list>>
get_employee(self, employee_id, fields, tr) ==
    LET url == _get_employee_url(self, employee_id)
        fs == IF fields /= None /\ Len(fields[1]) > 0
              THEN fields[1] ELSE <<"firstName", "lastName">>
        params == [fields |-> join(",", fs)]
    IN ThenJson(_get(self, url, <<params>>, tr))

\* a slip: only_current is not passed on
get_custom_report_current(self, title, fields, report_format, only_current, tr) ==
    LET fmt == IF report_format = <<>> THEN "json" ELSE report_format[1]
        url == custom_report_url(self)
        data == [title |-> title, fields |-> fields]
        params == [format |-> fmt, onlyCurrent |-> TRUE]
    IN ThenJson(_post(self, url, data, params, tr))

\* a slip: format and onlyCurrent put in the body
get_custom_report_body(self, title, fields, report_format, only_current, tr) ==
    LET fmt == IF report_format = <<>> THEN "json" ELSE report_format[1]
        cur == IF only_current = <<>> THEN TRUE ELSE only_current[1]
        url == custom_report_url(self)
        data == [title |-> title, fields |-> fields, format |-> fmt,
                 onlyCurrent |-> cur]
    IN ThenJson(_post(self, url, data, EmptyDict, tr))

\* report_format and only_current are <<>> when the caller omits them
get_custom_report(self, title, fields, report_format, only_current, tr) ==
    LET fmt == IF report_format = <<>> THEN "json" ELSE report_format[1]
        cur == IF only_current = <<>> THEN TRUE ELSE only_current[1]
        url == custom_report_url(self)
        data == [title |-> title, fields |-> fields]
        params == [format |-> fmt, onlyCurrent |-> cur]
    IN ThenJson(_post(self, url, data, params, tr))

\* a slip: the photo parsed like the other answers
get_photo_parsed(self, employee_id, size, tr) ==
    LET url == _get_photo_url(self, employee_id, size)
    IN ThenJson(_get(self, url, None, tr))

get_photo(self, employee_id, size, tr) ==
    LET url == _get_photo_url(self, employee_id, size)
    IN ThenContent(_get(self, url, None, tr))

-----------------------------------------------------------------------------
(* The program: clients are constructed and their operations called *)

NoCall == [op |-> "none"]

Init ==
    /\ objects = [c \in Clients |-> <<>>]
    /\ ctor = [c \in Clients |-> <<>>]
    /\ last = NoCall
    /\ nCalls = 0
    /\ nRequests = 0

\* c = BambooHR(subdomain, token)
Construct(c) ==
    /\ objects[c] = <<>>
    /\ \E subdomain \in Subdomains, token \in Tokens :
          /\ objects' = [objects EXCEPT ![c] = <<__init__(subdomain, token)>>]
          /\ ctor' = [ctor EXCEPT ![c] = <<[subdomain |-> subdomain,
                                            token |-> token]>>]
    /\ UNCHANGED <<last, nCalls, nRequests>>

\* a call of c's operation op with args, answered tr, that went as r
Finish(c, op, args, tr, r) ==
    /\ objects' = [objects EXCEPT ![c] = <<r.self>>]
    /\ last' = [op |-> op, client |-> c, args |-> args, tr |-> tr,
                sent |-> r.sent, result |-> r.result]
    /\ nCalls' = nCalls + 1
    /\ nRequests' = nRequests + Len(r.sent)
    /\ UNCHANGED ctor

\* the caller is between two calls and holds a constructed client
Callable(c) == objects[c] /= <<>> /\ last = NoCall /\ nCalls < MaxCalls

Call_get_employees(c) ==
    /\ Callable(c)
    /\ \E tr \in TransportResults :
          Finish(c, "get_employees", EmptyDict, tr,
                 get_employees(objects[c][1], tr))

Call_get_employee(c) ==
    /\ Callable(c)
    /\ \E employee_id \in EmployeeIds,
          fields \in {None} \cup {<<fl>> : fl \in FieldLists},
          tr \in TransportResults :
          Finish(c, "get_employee",
                 [employee_id |-> employee_id, fields |-> fields], tr,
                 get_employee(objects[c][1], employee_id, fields, tr))

Call_get_custom_report(c) ==
    /\ Callable(c)
    /\ \E title \in Titles, fields \in FieldLists \ {<<>>},
          report_format \in {<<>>} \cup {<<f>> : f \in ReportFormats},
          only_current \in {<<>>, <<TRUE>>, <<FALSE>>},
          tr \in TransportResults :
          Finish(c, "get_custom_report",
                 [title |-> title, fields |-> fields,
                  report_format |-> report_format,
                  only_current |-> only_current], tr,
                 get_custom_report(objects[c][1], title, fields,
                                   report_format, only_current, tr))

Call_get_photo(c) ==
    /\ Callable(c)
    /\ \E employee_id \in EmployeeIds, size \in PhotoSizes,
          tr \in TransportResults :
          Finish(c, "get_photo",
                 [employee_id |-> employee_id, size |-> size], tr,
                 get_photo(objects[c][1], employee_id, size, tr))

\* the caller takes the value or the exception of its call and goes on
Continue ==
    /\ last /= NoCall
    /\ last' = NoCall
    /\ UNCHANGED <<objects, ctor, nCalls, nRequests>>

Next ==
    \/ \E c \in Clients :
          \/ Construct(c)
          \/ Call_get_employees(c)
          \/ Call_get_employee(c)
          \/ Call_get_custom_report(c)
          \/ Call_get_photo(c)
    \/ Continue

Spec == Init /\ [][Next]_vars

-----------------------------------------------------------------------------
(* What the properties speak of *)

Called == last.op /= "none"

\* the last call's request was answered by a response
Answered == Called /\ ~last.tr.fault

JsonOps == {"get_employees", "get_employee", "get_custom_report"}

\* the arguments the last call's client was constructed with
Config == ctor[last.client][1]

\* the text of a body of Bodies
BodyText(b) ==
    CASE b = <<>> -> ""
      [] b = <<"[", "]">> -> "[]"
      [] b = <<"[", "[", "]", "]">> -> "[[]]"
      [] b = <<"[", "[", "]", ",", "[", "]", "]">> -> "[[],[]]"
      [] b = <<"[", "[", "]">> -> "[[]"
      [] b = <<"<">> -> "<"

\* the bodies of Bodies that are JSON texts
JsonBodies == {<<"[", "]">>, <<"[", "[", "]", "]">>,
               <<"[", "[", "]", ",", "[", "]", "]">>}

\* the value a JSON text of Bodies stands for
JsonValue(b) ==
    CASE b = <<"[", "]">> -> <<>>
      [] b = <<"[", "[", "]", "]">> -> << <<>> >>
      [] b = <<"[", "[", "]", ",", "[", "]", "]">> -> << <<>>, <<>> >>

\* the URL of the response to the last call's request
AnsweredURL == IF last.tr.redirected THEN RedirectURL ELSE last.sent[1].url

-----------------------------------------------------------------------------
(* C1: a response whose status is not exactly 200 (201 and 204 included)
   ends the call of any operation by raising the HTTP failure, with no value
   returned; the failure carries the status code, the reason phrase, the
   body text and the URL of that response. *)
C1_NonOkRaises ==
    (Answered /\ last.tr.status_code /= 200) =>
        /\ last.result.kind = "raise"
        /\ last.result.value = [type |-> "none"]
        /\ last.result.exc.type = "HTTPError"
        /\ last.result.exc.response.status_code = last.tr.status_code
        /\ last.result.exc.response.reason = last.tr.reason
        /\ last.result.exc.response.text = BodyText(last.tr.content)
        /\ last.result.exc.response.url = AnsweredURL
        /\ last.result.exc.message =
               "HTTP[" \o ToString(last.tr.status_code) \o "]: "
                   \o last.tr.reason \o " " \o BodyText(last.tr.content)
                   \o " for " \o AnsweredURL

\* a 204 with a body that is a JSON text, redirected, made get_custom_report raise
C1_Witness ==
    /\ Answered
    /\ last.op = "get_custom_report"
    /\ last.tr.status_code = 204
    /\ last.tr.content = <<"[", "]">>
    /\ last.tr.redirected
    /\ last.result.kind = "raise"
    /\ last.result.exc.type = "HTTPError"

(* C2 as stated: every response with status 200 makes the operation return
   its payload, the parsed JSON for get_employees, get_employee and
   get_custom_report and the raw bytes for get_photo. *)
C2_EveryOkReturns ==
    (Answered /\ last.tr.status_code = 200) =>
        /\ last.result.kind = "return"
        /\ last.op \in JsonOps =>
               /\ last.result.value.type = "json"
               /\ last.tr.content \in JsonBodies
               /\ last.result.value.v = JsonValue(last.tr.content)
        /\ last.op = "get_photo" =>
               /\ last.result.value.type = "bytes"
               /\ last.result.value.v = last.tr.content

(* C2, amended: a response with status 200 raises no HTTP failure; get_photo
   returns its body's bytes as they are; get_employees, get_employee and
   get_custom_report return the parsed JSON of a body that is a JSON text,
   and for any other body end with the JSON decoding fault and no value. *)
C2_OkReturnsPayload ==
    (Answered /\ last.tr.status_code = 200) =>
        /\ last.result.exc.type /= "HTTPError"
        /\ last.op = "get_photo" =>
               /\ last.result.kind = "return"
               /\ last.result.value.type = "bytes"
               /\ last.result.value.v = last.tr.content
        /\ (last.op \in JsonOps /\ last.tr.content \in JsonBodies) =>
               /\ last.result.kind = "return"
               /\ last.result.value.type = "json"
               /\ last.result.value.v = JsonValue(last.tr.content)
        /\ (last.op \in JsonOps /\ last.tr.content \notin JsonBodies) =>
               /\ last.result.kind = "raise"
               /\ last.result.value = [type |-> "none"]
               /\ last.result.exc.type = "JSONDecodeError"

\* get_photo returned the bytes of a body that is a JSON text
C2_Witness ==
    /\ Answered
    /\ last.tr.status_code = 200
    /\ last.op = "get_photo"
    /\ last.tr.content = <<"[", "[", "]", ",", "[", "]", "]">>
    /\ last.result.kind = "return"
    /\ last.result.value.type = "bytes"

\* the URL the claim gives for the last call
ClaimedURL ==
    "https://api.bamboohr.com/api/gateway.php" \o "/" \o Config.subdomain \o
    CASE last.op = "get_employees" -> "/v1/employees/directory"
      [] last.op = "get_employee" ->
             "/v1/employees/" \o ToString(last.args.employee_id)
      [] last.op = "get_custom_report" -> "/v1/reports/custom"
      [] last.op = "get_photo" ->
             "/v1/employees/" \o ToString(last.args.employee_id)
                 \o "/photo/" \o last.args.size

\* the URLs an operation of a client may request, over the ids and sizes
URLsOf(self, op) ==
    CASE op = "get_employees" -> {employees_url(self)}
      [] op = "get_employee" ->
             {_get_employee_url(self, id) : id \in EmployeeIds}
      [] op = "get_custom_report" -> {custom_report_url(self)}
      [] op = "get_photo" ->
             {_get_photo_url(self, id, size) :
                  id \in EmployeeIds, size \in PhotoSizes}

Ops == {"get_employees", "get_employee", "get_custom_report", "get_photo"}

(* C3: the URL of the request of each operation is the base endpoint, then
   '/<subdomain>', then the operation's resource path; no other operation
   of the same client requests that URL, whatever the id and the size. *)
C3_RequestURL ==
    Called =>
        /\ \A i \in DOMAIN last.sent : last.sent[i].url = ClaimedURL
        /\ \A op \in Ops \ {last.op} :
               last.sent[1].url \notin URLsOf(objects[last.client][1], op)

\* the photo request of employee 42 of the account corp
C3_Witness ==
    /\ Called
    /\ last.op = "get_photo"
    /\ last.args = [employee_id |-> 42, size |-> "xs"]
    /\ Config.subdomain = "corp"
    /\ last.sent[1].url =
           "https://api.bamboohr.com/api/gateway.php/corp/v1/employees/42/photo/xs"

\* names joined by commas, in their order
CommaJoined(names) ==
    CASE Len(names) = 1 -> names[1]
      [] Len(names) = 2 -> names[1] \o "," \o names[2]
      [] Len(names) = 3 -> names[1] \o "," \o names[2] \o "," \o names[3]

(* C4: get_employee without a fields argument asks for the fields
   'firstName,lastName'; with a non-empty list it asks for exactly the
   list's names joined by commas in the given order. *)
C4_EmployeeFields ==
    (Called /\ last.op = "get_employee") =>
        /\ last.args.fields = <<>> =>
               last.sent[1].params = [fields |-> "firstName,lastName"]
        /\ (last.args.fields /= <<>> /\ Len(last.args.fields[1]) > 0) =>
               last.sent[1].params =
                   [fields |-> CommaJoined(last.args.fields[1])]

\* a call with two names, and the request that carries them in that order
C4_Witness ==
    /\ Called
    /\ last.op = "get_employee"
    /\ last.args.fields = << <<"lastName", "id">> >>
    /\ last.sent[1].params = [fields |-> "lastName,id"]

(* C5: get_custom_report sends format = 'json' and onlyCurrent = true when
   the caller gives neither; a value the caller gives is sent as given, the
   other keeping its default. *)
C5_ReportDefaults ==
    (Called /\ last.op = "get_custom_report") =>
        last.sent[1].params =
            [format |-> IF last.args.report_format = <<>> THEN "json"
                        ELSE last.args.report_format[1],
             onlyCurrent |-> IF last.args.only_current = <<>> THEN TRUE
                             ELSE last.args.only_current[1]]

\* only_current given as false, the format left to its default
C5_Witness ==
    /\ Called
    /\ last.op = "get_custom_report"
    /\ last.args.report_format = <<>>
    /\ last.args.only_current = <<FALSE>>
    /\ last.sent[1].params = [format |-> "json", onlyCurrent |-> FALSE]

(* C6: every request of every operation carries basic authentication with
   the credential its client was constructed with as the username and 'x'
   as the password. *)
C6_Authenticated ==
    Called => \A i \in DOMAIN last.sent :
        last.sent[i].auth =
            [username |-> Config.token, password |-> "x"]

\* two clients with different credentials, and a request of the second
C6_Witness ==
    /\ Called
    /\ last.client = "c2"
    /\ ctor["c1"] /= <<>>
    /\ ctor["c1"][1].token = "tokA"
    /\ Config.token = "tokB"
    /\ last.sent[1].auth.username = "tokB"

(* C7: a call issues exactly one request, also when it ends by raising, so
   the requests issued are as many as the calls made. *)
C7_OneRequestPerCall ==
    /\ nRequests = nCalls
    /\ Called => Len(last.sent) = 1

\* a second call that a status other than 200 ended
C7_Witness ==
    /\ Answered
    /\ nCalls = 2
    /\ last.tr.status_code = 500
    /\ last.result.kind = "raise"

\* the last call made on a client fresh from its constructor
OnFreshClient ==
    LET self == __init__(Config.subdomain, Config.token) IN
    CASE last.op = "get_employees" -> get_employees(self, last.tr)
      [] last.op = "get_employee" ->
             get_employee(self, last.args.employee_id, last.args.fields,
                          last.tr)
      [] last.op = "get_custom_report" ->
             get_custom_report(self, last.args.title, last.args.fields,
                               last.args.report_format,
                               last.args.only_current, last.tr)
      [] last.op = "get_photo" ->
             get_photo(self, last.args.employee_id, last.args.size, last.tr)

(* C8: a client keeps the subdomain and the authentication it was
   constructed with through every call, returned or raised, and the request
   of a call is the one the same call makes on a client fresh from its
   constructor: earlier calls and their responses leave no trace. *)
C8_ConfigImmutable ==
    /\ \A c \in Clients : objects[c] /= <<>> =>
           objects[c][1] =
               [subdomain |-> ctor[c][1].subdomain,
                auth |-> [username |-> ctor[c][1].token, password |-> "x"]]
    /\ Called => last.sent = OnFreshClient.sent

\* a second call, the first one over
C8_Witness ==
    /\ Called
    /\ nCalls = 2
    /\ last.op = "get_custom_report"
    /\ last.result.kind = "raise"

(* C9: get_custom_report alone issues a POST, its JSON body holding exactly
   the title and the fields list as given and format/onlyCurrent travelling
   as query parameters; the other three operations issue a GET with no
   body. *)
C9_Methods ==
    Called =>
        /\ last.op = "get_custom_report" =>
               /\ last.sent[1].method = "POST"
               /\ last.sent[1].json =
                      <<[title |-> last.args.title,
                         fields |-> last.args.fields]>>
               /\ DOMAIN last.sent[1].params = {"format", "onlyCurrent"}
        /\ last.op /= "get_custom_report" =>
               /\ last.sent[1].method = "GET"
               /\ last.sent[1].json = <<>>

\* a report of two fields, posted
C9_Witness ==
    /\ Called
    /\ last.op = "get_custom_report"
    /\ last.args.fields = <<"lastName", "id">>
    /\ last.sent[1].method = "POST"
    /\ last.sent[1].json[1].fields = <<"lastName", "id">>

(* C10: get_employee given an empty fields list does what it does without
   the argument: it asks for 'firstName,lastName', never for no field. *)
C10_EmptyFieldsDefault ==
    (Called /\ last.op = "get_employee" /\ last.args.fields = << <<>> >>) =>
        /\ last.sent[1].params = [fields |-> "firstName,lastName"]
        /\ LET omitted == get_employee(objects[last.client][1],
                                       last.args.employee_id, None, last.tr)
           IN last.sent = omitted.sent /\ last.result = omitted.result

\* a call with the empty list
C10_Witness ==
    /\ Called
    /\ last.op = "get_employee"
    /\ last.args.fields = << <<>> >>
    /\ last.sent[1].params.fields = "firstName,lastName"

====
